---- MODULE Spec2Model ----
(***************************************************************************)
(* Model of mqmetric/discover.go: discovery of the metric catalog, queue   *)
(* selection by patterns, subscription reconciliation and the merge of     *)
(* publications into the metric store.                                     *)
(*                                                                         *)
(* Go strings are modelled as sequences of one-character strings, so that  *)
(* Split, TrimSpace, HasPrefix and HasSuffix are computed, not assumed.    *)
(***************************************************************************)
EXTENDS Integers, Sequences, FiniteSets, TLC

VARIABLES
    usePublications,  \* collaborator capability flag read by discover.go
    discoveryDone,    \* discover.go:102
    Metrics,          \* discover.go:98, the discovered catalog (type id -> MonType)
    qInfoMap,         \* discover.go:100, entity name -> QInfo
    subHobj,          \* MonType.subHobj of every type: type id -> (key -> handle)
    Values,           \* MonElement.Values of every element: element id -> (key -> int64)
    opened,           \* the queue manager's side: how often (type, key) is subscribed and not closed
    op,               \* the last operation that ran, its inputs and what it returned
    call              \* the last application of a pure function, with its result

mainVars == <<usePublications, discoveryDone, Metrics, qInfoMap, subHobj, Values, opened, op>>
vars == <<usePublications, discoveryDone, Metrics, qInfoMap, subHobj, Values, opened, op, call>>

(***************************************************************************)
(* Bounds of the model.                                                    *)
(***************************************************************************)
MaxPatterns == 2      \* patterns in a pattern list given to FilterRegExp
MaxCandidates == 3    \* names in the candidate list given to FilterRegExp
StackLimit == 2       \* nested FilterRegExp calls the goroutine stack is given

(***************************************************************************)
(* package strings                                                         *)
(***************************************************************************)
IsSpace(c) == c = " "

RECURSIVE TrimLeft(_)
TrimLeft(s) ==
    IF s # <<>> /\ IsSpace(Head(s)) THEN TrimLeft(Tail(s)) ELSE s

RECURSIVE TrimRight(_)
TrimRight(s) ==
    IF s # <<>> /\ IsSpace(s[Len(s)]) THEN TrimRight(SubSeq(s, 1, Len(s) - 1)) ELSE s

TrimSpace(s) == TrimRight(TrimLeft(s))

HasPrefix(s, p) == Len(p) <= Len(s) /\ SubSeq(s, 1, Len(p)) = p

HasSuffix(s, p) == Len(p) <= Len(s) /\ SubSeq(s, Len(s) - Len(p) + 1, Len(s)) = p

Count(s, c) == Cardinality({i \in 1..Len(s) : s[i] = c})

ContainsChar(s, c) == \E i \in 1..Len(s) : s[i] = c

\* strings.Split(s, ","): always at least one piece, empty pieces are kept
RECURSIVE Split(_)
Split(s) ==
    IF ~ContainsChar(s, ",")
    THEN <<s>>
    ELSE LET i == CHOOSE k \in 1..Len(s) : s[k] = "," /\ \A j \in 1..(k - 1) : s[j] # ","
         IN  <<SubSeq(s, 1, i - 1)>> \o Split(SubSeq(s, i + 1, Len(s)))

(***************************************************************************)
(* FilterRegExp and patternMatch                                           *)
(***************************************************************************)
patternMatch_exactOnly(s, r) == s = r

patternMatch(s, r) ==
    IF HasSuffix(r, <<"*">>)
    THEN HasPrefix(s, SubSeq(r, 1, Len(r) - 1))
    ELSE s = r

\* the loop of lines 1180-1202: the patterns are trimmed, the empty ones skipped,
\* the '!' ones go to excludeList without their '!', the others to includeList and,
\* comma-separated, to includeListString
RECURSIVE partitionPatterns(_, _, _)
partitionPatterns(objectPatterns, i, acc) ==
    IF i > Len(objectPatterns)
    THEN acc
    ELSE LET r == TrimSpace(objectPatterns[i])
         IN  IF Len(r) = 0
             THEN partitionPatterns(objectPatterns, i + 1, acc)
             ELSE IF HasPrefix(r, <<"!">>)
             THEN partitionPatterns(objectPatterns, i + 1,
                      [acc EXCEPT !.excludeList = Append(@, SubSeq(r, 2, Len(r)))])
             ELSE partitionPatterns(objectPatterns, i + 1,
                      [acc EXCEPT !.includeList = Append(@, r),
                                  !.includeListString =
                                      IF @ = <<>> THEN r ELSE @ \o <<",">> \o r])

\* lines 1222-1238: the decision for one candidate
includeCandidate_lastExcludeWins(s, assumeAll, excludeList, includeList) ==
    IF assumeAll
    THEN Len(excludeList) = 0 \/ ~patternMatch(s, excludeList[Len(excludeList)])
    ELSE \E i \in 1..Len(includeList) : patternMatch(s, includeList[i])

includeCandidate(s, assumeAll, excludeList, includeList) ==
    IF assumeAll
    THEN ~\E i \in 1..Len(excludeList) : patternMatch(s, excludeList[i])
    ELSE \E i \in 1..Len(includeList) : patternMatch(s, includeList[i])

\* the loop of lines 1216-1245 over possibleList
RECURSIVE filterPass(_, _, _, _, _)
filterPass(possibleList, j, assumeAll, excludeList, includeList) ==
    IF j > Len(possibleList)
    THEN <<>>
    ELSE LET s == TrimSpace(possibleList[j])
             rest == filterPass(possibleList, j + 1, assumeAll, excludeList, includeList)
         IN  IF Len(s) = 0
             THEN rest
             ELSE IF includeCandidate(s, assumeAll, excludeList, includeList)
             THEN <<s>> \o rest
             ELSE rest

\* One call of FilterRegExp with `stack` nested calls still possible. The result is
\* the returned list, the number of recursive calls made, and whether the recursion
\* ran out of stack (the Go runtime then ends the program).
\* lines 1179-1202: the patterns of the list, sorted into the two lists
partitioned(patterns) ==
    partitionPatterns(Split(TrimSpace(patterns)), 1,
        [excludeList |-> <<>>, includeList |-> <<>>, includeListString |-> <<>>])

\* lines 1204-1245: the pass over the candidates with the partitioned patterns p
passOf(p, possibleList) ==
    filterPass(possibleList, 1, ~(Len(p.includeList) > 0 /\ Len(p.excludeList) = 0),
               p.excludeList, p.includeList)

\* lines 1204-1214: neither only include patterns nor only exclude patterns
mixedPatterns(p) ==
    /\ ~(Len(p.includeList) > 0 /\ Len(p.excludeList) = 0)
    /\ ~(Len(p.excludeList) > 0 /\ Len(p.includeList) = 0)

filterCall_noSecondPass(patterns, possibleList, stack) ==
    [qList |-> passOf(partitioned(patterns), possibleList), calls |-> 0, overflow |-> FALSE]

RECURSIVE filterCall(_, _, _)

\* lines 1247-1252: the second call, for a mixed list, with the include patterns only
secondCall(p, qList, stack) ==
    IF ~mixedPatterns(p)
    THEN [qList |-> qList, calls |-> 0, overflow |-> FALSE]
    ELSE IF stack = 0
    THEN [qList |-> qList, calls |-> 0, overflow |-> TRUE]
    ELSE [filterCall(p.includeListString, qList, stack - 1) EXCEPT !.calls = @ + 1]

firstCall(p, possibleList, stack) == secondCall(p, passOf(p, possibleList), stack)

filterCall(patterns, possibleList, stack) ==
    firstCall(partitioned(patterns), possibleList, stack)

FilterRegExp(patterns, possibleList) == filterCall(patterns, possibleList, StackLimit)

(***************************************************************************)
(* formatDescription                                                       *)
(***************************************************************************)
\* strings.Contains
Contains(s, substr) ==
    \E i \in 1..(Len(s) - Len(substr) + 1) : SubSeq(s, i, i + Len(substr) - 1) = substr

\* strings.Replace(s, old, new, -1) for a non-empty old: from the left, without
\* looking again at what was put in
RECURSIVE Replace(_, _, _)
Replace(s, old, new) ==
    IF Len(s) < Len(old)
    THEN s
    ELSE IF HasPrefix(s, old)
    THEN new \o Replace(SubSeq(s, Len(old) + 1, Len(s)), old, new)
    ELSE <<Head(s)>> \o Replace(Tail(s), old, new)

\* lines 1014-1015: every run of underscores becomes one underscore
RECURSIVE multiunder(_)
multiunder(s) ==
    IF Len(s) < 2
    THEN s
    ELSE IF s[1] = "_" /\ s[2] = "_"
    THEN multiunder(Tail(s))
    ELSE <<Head(s)>> \o multiunder(Tail(s))

\* strings.ToLower on the letters A to Z
ToLower(s) ==
    LET upper == <<"A", "B", "C", "D", "E", "F", "G", "H", "I", "J", "K", "L", "M", "N", "O", "P", "Q", "R", "S", "T", "U", "V", "W", "X", "Y", "Z">>
        lower == <<"a", "b", "c", "d", "e", "f", "g", "h", "i", "j", "k", "l", "m", "n", "o", "p", "q", "r", "s", "t", "u", "v", "w", "x", "y", "z">>
    IN  [i \in 1..Len(s) |->
            IF \E k \in 1..26 : upper[k] = s[i]
            THEN lower[CHOOSE k \in 1..26 : upper[k] = s[i]]
            ELSE s[i]]

\* lines 1008-1029: the description without blanks, slashes, dashes, capitals and
\* units
unitsRemoved(Description) ==
    Replace(Replace(Replace(Replace(Replace(Replace(Replace(
        ToLower(multiunder(Replace(Replace(Replace(Description,
            <<" ">>, <<"_">>), <<"/">>, <<"_">>), <<"-">>, <<"_">>))),
        <<"_", "c", "o", "u", "n", "t">>, <<>>),
        <<"_", "b", "y", "t", "e", "s">>, <<>>),
        <<"_", "b", "y", "t", "e">>, <<>>),
        <<"_", "s", "e", "c", "o", "n", "d", "s">>, <<>>),
        <<"_", "s", "e", "c", "o", "n", "d">>, <<>>),
        <<"_", "p", "e", "r", "c", "e", "n", "t", "a", "g", "e">>, <<>>),
        <<"m", "e", "s", "s", "a", "g", "e", "s", "_", "e", "x", "p", "i", "r", "e", "d">>,
        <<"e", "x", "p", "i", "r", "e", "d", "_", "m", "e", "s", "s", "a", "g", "e", "s">>)

\* lines 1040-1047: a total is named last, a log is counted in bytes
totalOrLog(s) ==
    IF Contains(s, <<"_", "t", "o", "t", "a", "l">>)
    THEN Replace(s, <<"_", "t", "o", "t", "a", "l">>, <<>>) \o <<"_", "t", "o", "t", "a", "l">>
    ELSE IF Contains(s, <<"l", "o", "g", "_">>)
    THEN s \o <<"_", "b", "y", "t", "e", "s">>
    ELSE s

\* lines 1052-1056 with the s of lines 1040-1047
countSuffix_none(s, Description) == s

countSuffix(s, Description) ==
    IF Contains(Description, <<"b", "y", "t", "e", " ", "c", "o", "u", "n", "t">>)
    THEN s \o <<"_", "b", "y", "t", "e", "s">>
    ELSE IF HasSuffix(Description, <<" ", "c", "o", "u", "n", "t">>) /\ ~Contains(s, <<"_", "c", "o", "u", "n", "t">>)
    THEN s \o <<"_", "c", "o", "u", "n", "t">>
    ELSE s

\* lines 1032-1057 with the s of lines 1008-1029
unitAdded(s, Description, Datatype) ==
    IF Datatype \in {"PERCENT", "HUNDREDTHS"}
    THEN s \o <<"_", "p", "e", "r", "c", "e", "n", "t", "a", "g", "e">>
    ELSE IF Datatype \in {"MB", "GB"}
    THEN s \o <<"_", "b", "y", "t", "e", "s">>
    ELSE IF Datatype = "MICROSEC"
    THEN s \o <<"_", "s", "e", "c", "o", "n", "d", "s">>
    ELSE countSuffix(totalOrLog(s), Description)

formatDescription(Description, Datatype) ==
    unitAdded(unitsRemoved(Description), Description, Datatype)

(***************************************************************************)
(* Normalise                                                               *)
(***************************************************************************)
\* lines 1093-1117. The float64 that is returned is f * times / over: the products
\* and quotients of line 1106-1113 are kept as their factors, which is exact for
\* the values a float64 holds exactly (up to 2^53).
Normalise_unclamped(Datatype, value) == [f |-> value, times |-> 1, over |-> 1]

Normalise(Datatype, value) ==
    LET f == IF value < 0 THEN 0 ELSE value
    IN  IF Datatype \in {"PERCENT", "HUNDREDTHS"}
        THEN [f |-> f, times |-> 1, over |-> 100]
        ELSE IF Datatype = "MB"
        THEN [f |-> f, times |-> 1024 * 1024, over |-> 1]
        ELSE IF Datatype = "GB"
        THEN [f |-> f, times |-> 1024 * 1024 * 1024, over |-> 1]
        ELSE IF Datatype = "MICROSEC"
        THEN [f |-> f, times |-> 1, over |-> 1000000]
        ELSE [f |-> f, times |-> 1, over |-> 1]

(***************************************************************************)
(* VerifyPatterns, VerifyQueuePatterns                                     *)
(***************************************************************************)
\* lines 1134-1144: whether the pattern sets err
patternError_starsOnly(pattern, allowNegatives) ==
    Count(pattern, "*") > 1 \/ (Count(pattern, "*") = 1 /\ ~HasSuffix(pattern, <<"*">>))

patternError(pattern, allowNegatives) ==
    \/ Count(pattern, "*") > 1
    \/ (Count(pattern, "*") = 1 /\ ~HasSuffix(pattern, <<"*">>))
    \/ /\ allowNegatives
       /\ \/ Count(pattern, "!") > 1
          \/ (Count(pattern, "!") = 1 /\ ~HasPrefix(pattern, <<"!">>))

\* the loop of lines 1128-1145: it ends at the first pattern that sets err
RECURSIVE verifyLoop(_, _, _)
verifyLoop(objectPatterns, i, allowNegatives) ==
    IF i > Len(objectPatterns)
    THEN FALSE
    ELSE IF TrimSpace(objectPatterns[i]) = <<>>
    THEN verifyLoop(objectPatterns, i + 1, allowNegatives)
    ELSE IF patternError(TrimSpace(objectPatterns[i]), allowNegatives)
    THEN TRUE
    ELSE verifyLoop(objectPatterns, i + 1, allowNegatives)

verifyObjectPatterns(patternList, allowNegatives) ==
    verifyLoop(Split(patternList), 1, allowNegatives)

VerifyPatterns(patternList) == verifyObjectPatterns(patternList, FALSE)
VerifyQueuePatterns(patternList) == verifyObjectPatterns(patternList, TRUE)

(***************************************************************************)
(* The queue manager: queue names, metadata and the faults it can answer   *)
(* with. These are the inputs of the operations.                           *)
(***************************************************************************)
QMgrMapKey == <<"@", "s", "e", "l", "f">>

A1 == <<"A", "1">>
A2 == <<"A", "2">>
ServerOrder == <<A1, A2>>      \* the order in which the queue manager lists its queues

\* a fault of the metadata exchange: the reply of `level` for class or type `of`
\* cannot be subscribed to or received (group = 0), or its group number `group`
\* carries a parameter the code does not know
NoFault == [level |-> "none", of |-> <<>>, group |-> 0]

MetaFaults ==
    {NoFault,
     [level |-> "classes", of |-> <<>>, group |-> 0],
     [level |-> "classes", of |-> <<>>, group |-> 2],
     [level |-> "types", of |-> <<2>>, group |-> 1],
     [level |-> "elements", of |-> <<2, 1>>, group |-> 0],
     [level |-> "elements", of |-> <<1, 1>>, group |-> 2]}

\* what the queue manager describes its elements with: the description of group
\* `group` of the elements of type `of` is the one of element 1 of type <<1, 1>>
\* ("sameName"), or one that formats to that name with "object_" before it
\* ("prefixedName")
NameFaults ==
    {[level |-> "sameName", of |-> <<1, 1>>, group |-> 2],
     [level |-> "sameName", of |-> <<2, 1>>, group |-> 1],
     [level |-> "prefixedName", of |-> <<2, 1>>, group |-> 1]}

describedAs(groups, ty, fault) ==
    [k \in 1..Len(groups) |->
        IF fault.of = ty /\ fault.group = k /\ fault.level = "sameName"
        THEN [groups[k] EXCEPT !.MetricName = "mqput_count"]
        ELSE IF fault.of = ty /\ fault.group = k /\ fault.level = "prefixedName"
        THEN [groups[k] EXCEPT !.MetricName = "object_mqput_count"]
        ELSE groups[k]]

markGroups(groups, level, of, fault) ==
    [k \in 1..Len(groups) |->
        [groups[k] EXCEPT !.unknown = (fault.level = level /\ fault.of = of /\ fault.group = k)]]

replyFails(level, of, fault) ==
    fault.level = level /\ fault.of = of /\ fault.group = 0

\* METADATA/CLASSES: two classes
classesReply(fault) ==
    [fail |-> replyFails("classes", <<>>, fault),
     groups |-> markGroups(<<[index |-> 1, unknown |-> FALSE],
                             [index |-> 2, unknown |-> FALSE]>>, "classes", <<>>, fault)]

\* the types of a class: one type each
typesReply(c, fault) ==
    [fail |-> replyFails("types", <<c>>, fault),
     groups |-> markGroups(<<[index |-> 1, unknown |-> FALSE]>>, "types", <<c>>, fault)]

\* the elements of a type, after the topic on which its data is published: type
\* <<1, 1>> is published per queue (its topic has the %s placeholder), type <<2, 1>>
\* for the queue manager
elementsReply(ty, fault) ==
    [fail |-> replyFails("elements", ty, fault),
     topic |-> IF ty[1] = 1 THEN <<"Monitor/STATQ/", "%s", "/PUT">> ELSE <<"Monitor/CPU/SystemSummary">>,
     groups |-> markGroups(
         describedAs(
             IF ty[1] = 1
             THEN <<[index |-> 1, Datatype |-> "DELTA", MetricName |-> "mqput_count", unknown |-> FALSE],
                    [index |-> 2, Datatype |-> "UNIT", MetricName |-> "queue_depth", unknown |-> FALSE]>>
             ELSE <<[index |-> 1, Datatype |-> "UNIT", MetricName |-> "cpu_load", unknown |-> FALSE]>>,
             ty, fault),
         "elements", ty, fault)]

Perms(S) ==
    {f \in [1..Cardinality(S) -> S] : \A i, j \in 1..Cardinality(S) : f[i] = f[j] => i = j}

Range(f) == {f[x] : x \in DOMAIN f}

EmptyMap == <<>>

\* A range over a Go map runs in an order the runtime picks: an order over all
\* the keys the map can hold is an input, and the range visits the keys present.
inOrder(order, present) == SelectSeq(order, LAMBDA k : k \in present)

ClassIndexes == {1, 2}
TypeIndexes == {1}
ClassOrders == Perms(ClassIndexes)
TypeOrders == Perms(TypeIndexes)

(***************************************************************************)
(* discoverClasses, discoverTypes, discoverElements, discoverStats         *)
(***************************************************************************)
\* the groups decoded before the first one with an unknown parameter: the loops of
\* lines 253-281, 301-331 and 350-385 return at the unknown parameter, before the
\* group's node is stored
RECURSIVE decodedGroups(_, _)
decodedGroups(groups, i) ==
    IF i > Len(groups) \/ groups[i].unknown
    THEN <<>>
    ELSE <<groups[i]>> \o decodedGroups(groups, i + 1)

hasUnknown(groups) == \E k \in 1..Len(groups) : groups[k].unknown

\* a failed subscribeManaged or getMessageWithHObj leaves nothing to decode
decodeReply(reply) ==
    IF reply.fail
    THEN [found |-> <<>>, err |-> TRUE]
    ELSE [found |-> decodedGroups(reply.groups, 1), err |-> hasUnknown(reply.groups)]

byIndex(found, node(_)) ==
    [i \in {found[k].index : k \in 1..Len(found)} |->
        node(CHOOSE g \in Range(found) : g.index = i)]

topicOf(reply) == IF reply.fail THEN <<>> ELSE reply.topic
elementNode(g) == [Datatype |-> g.Datatype, MetricName |-> g.MetricName]

discoverElements(ty, fault) ==
    LET reply == elementsReply(ty, fault)
        d == decodeReply(reply)
    IN  [ObjectTopic |-> topicOf(reply),
         Elements |-> byIndex(d.found, elementNode),
         err |-> d.err]

\* lines 481-486: the error of a type is overwritten by the next type's result
RECURSIVE discoverElementsOfTypes(_, _, _, _, _)
discoverElementsOfTypes(c, Types, tyOrder, fault, err) ==
    IF tyOrder = <<>>
    THEN [Types |-> Types, err |-> err]
    ELSE LET t == Head(tyOrder)
             e == discoverElements(<<c, t>>, fault)
         IN  discoverElementsOfTypes(c,
                 [Types EXCEPT ![t] = [ObjectTopic |-> e.ObjectTopic, Elements |-> e.Elements]],
                 Tail(tyOrder), fault, e.err)

noElements(g) == [ObjectTopic |-> <<>>, Elements |-> EmptyMap]

discoverTypes(c, fault) ==
    LET d == decodeReply(typesReply(c, fault))
    IN  [Types |-> byIndex(d.found, noElements), err |-> d.err]

\* lines 477-488: the error of a class is overwritten by the next class's result
RECURSIVE discoverTypesOfClasses(_, _, _, _, _)
discoverTypesOfClasses(Classes, clOrder, tyOrder, fault, err) ==
    IF clOrder = <<>>
    THEN [Classes |-> Classes, err |-> err]
    ELSE LET c == Head(clOrder)
             t == discoverTypes(c, fault)
             e == IF t.err
                  THEN [Types |-> t.Types, err |-> TRUE]
                  ELSE discoverElementsOfTypes(c, t.Types, inOrder(tyOrder, DOMAIN t.Types),
                                               fault, FALSE)
         IN  discoverTypesOfClasses([Classes EXCEPT ![c] = [Types |-> e.Types]],
                                    Tail(clOrder), tyOrder, fault, e.err)

noTypes(g) == [Types |-> EmptyMap]

discoverClasses(fault) ==
    LET d == decodeReply(classesReply(fault))
    IN  [Classes |-> byIndex(d.found, noTypes), err |-> d.err]

hasPlaceholder(topic) == \E k \in 1..Len(topic) : topic[k] = "%s"

TypeIds(M) == UNION {{<<c, t>> : t \in DOMAIN M[c].Types} : c \in DOMAIN M}

\* lines 497-500: the name of element e of type ty, with "object_" before it when
\* the type is published per object
prefixedName(M, ty, e) ==
    IF hasPlaceholder(M[ty[1]].Types[ty[2]].ObjectTopic)
    THEN "object_" \o M[ty[1]].Types[ty[2]].Elements[e].MetricName
    ELSE M[ty[1]].Types[ty[2]].Elements[e].MetricName

\* lines 490-508: the names, with "object_" before those of per-object types
qualifiedNames(M) ==
    UNION {{<<ty, e, prefixedName(M, ty, e)>> :
                e \in DOMAIN M[ty[1]].Types[ty[2]].Elements} : ty \in TypeIds(M)}

nonUnique(M) ==
    \E x, y \in qualifiedNames(M) : x # y /\ x[3] = y[3]

\* lines 490-510: a name met twice is the error returned
checkedNames_unchecked(t) == [Classes |-> t.Classes, err |-> t.err]

checkedNames(t) == [Classes |-> t.Classes, err |-> t.err \/ nonUnique(t.Classes)]

\* lines 476-510 with the classes c that discoverClasses found
statsOfClasses(c, fault, clOrder, tyOrder) ==
    IF c.err
    THEN [Classes |-> c.Classes, err |-> TRUE]
    ELSE checkedNames(discoverTypesOfClasses(c.Classes, inOrder(clOrder, DOMAIN c.Classes),
                                             tyOrder, fault, FALSE))

discoverStats(metaPrefixEmpty, fault, clOrder, tyOrder) ==
    IF metaPrefixEmpty /\ ~usePublications
    THEN [Classes |-> EmptyMap, err |-> FALSE]
    ELSE statsOfClasses(discoverClasses(fault), fault, clOrder, tyOrder)

(***************************************************************************)
(* inquireObjects and discoverQueues                                       *)
(***************************************************************************)
defaultMaxQDepth == 5000

Put(f, k, v) == [x \in DOMAIN f \cup {k} |-> IF x = k THEN v ELSE f[x]]
Remove(f, k) == [x \in DOMAIN f \ {k} |-> f[x]]

\* the queue manager's answer to INQUIRE_Q_NAMES for one name or generic name
genericMatch(q, pattern) ==
    IF pattern # <<>> /\ pattern[Len(pattern)] = "*"
    THEN Len(q) >= Len(pattern) - 1 /\ SubSeq(q, 1, Len(pattern) - 1) = SubSeq(pattern, 1, Len(pattern) - 1)
    ELSE q = pattern

queueNames(pattern, serverQueues) ==
    SelectSeq(ServerOrder, LAMBDA q : q \in serverQueues /\ genericMatch(q, pattern))

\* lines 613-614
validPattern(pattern) ==
    ~(Count(pattern, "*") > 1 \/ (Count(pattern, "*") = 1 /\ ~HasSuffix(pattern, <<"*">>)))

\* the loop of lines 606-742. faultAt = i: the inquiry for objectPatterns[i] fails
\* (the Put, the Get or the PCF completion code), which returns the names found so
\* far with the error. A truncated reply that a larger buffer cures is no fault.
RECURSIVE inquireLoop(_, _, _, _, _, _)
inquireLoop(objectPatterns, i, serverQueues, faultAt, objectList, missing) ==
    IF i > Len(objectPatterns)
    THEN [objectList |-> objectList, err |-> missing]
    ELSE LET pattern == TrimSpace(objectPatterns[i])
             names == queueNames(pattern, serverQueues)
         IN  IF Len(pattern) = 0
             THEN inquireLoop(objectPatterns, i + 1, serverQueues, faultAt, objectList, missing)
             ELSE IF ~validPattern(pattern)
             THEN [objectList |-> <<>>, err |-> TRUE]
             ELSE IF faultAt = i
             THEN [objectList |-> objectList, err |-> TRUE]
             ELSE inquireLoop(objectPatterns, i + 1, serverQueues, faultAt,
                              objectList \o names, missing \/ names = <<>>)

inquireObjects(objectPatternsList, serverQueues, faultAt) ==
    IF objectPatternsList = <<>>
    THEN [objectList |-> <<>>, err |-> FALSE]
    ELSE inquireLoop(Split(TrimSpace(objectPatternsList)), 1, serverQueues, faultAt, <<>>, FALSE)

\* line 94
maxBufSize == 100 * 1024 * 1024

\* One turn of the loop of lines 691-741 for a reply of datalen bytes that Get can
\* only fail to deliver because the buffer is too small (MQRC_TRUNCATED_MSG_FAILED,
\* which leaves the reply on the queue): the buffer of the next turn, whether
\* there is a next turn, and the error when the function returns one.
getReply(bufSize, datalen) ==
    IF datalen <= bufSize
    THEN [bufSize |-> bufSize, truncation |-> FALSE, err |-> "nil"]
    ELSE IF bufSize <= maxBufSize
    THEN [bufSize |-> IF bufSize * 2 > maxBufSize THEN maxBufSize ELSE bufSize * 2,
          truncation |-> TRUE, err |-> "nil"]
    ELSE [bufSize |-> bufSize, truncation |-> FALSE, err |-> "error"]

NewQInfo == [MaxDepth |-> 0, exists |-> FALSE, firstCollection |-> FALSE]

\* lines 555-565
RECURSIVE markExisting(_, _, _)
markExisting(qList, i, qmap) ==
    IF i > Len(qList)
    THEN qmap
    ELSE LET qName == TrimSpace(qList[i])
             qInfoElem == IF qName \in DOMAIN qmap THEN qmap[qName] ELSE NewQInfo
         IN  markExisting(qList, i + 1,
                 Put(qmap, qName, [qInfoElem EXCEPT !.MaxDepth = defaultMaxQDepth,
                                                    !.exists = TRUE]))

seqToSet(q) == {q[i] : i \in 1..Len(q)}

\* the selection of lines 536-551: the list and the error it comes with
filterAll(monitoredQueuePatterns, all) ==
    IF all.err
    THEN [qList |-> <<>>, err |-> TRUE]
    ELSE [qList |-> FilterRegExp(monitoredQueuePatterns, all.objectList).qList, err |-> FALSE]

listFound(found) == [qList |-> found.objectList, err |-> found.err]

selectQueues(monitoredQueuePatterns, serverQueues, faultAt) ==
    IF ContainsChar(monitoredQueuePatterns, "!")
    THEN filterAll(monitoredQueuePatterns, inquireObjects(<<"*">>, serverQueues, faultAt))
    ELSE listFound(inquireObjects(monitoredQueuePatterns, serverQueues, faultAt))

\* useStatus is taken to be false: inquireQueueAttributes is not called
\* lines 553-584 with the selection sel
markSelected(sel, qmap) ==
    IF Len(sel.qList) > 0
    THEN [qInfoMap |-> markExisting(sel.qList, 1, qmap), err |-> FALSE,
          selected |-> {TrimSpace(q) : q \in seqToSet(sel.qList)}]
    ELSE [qInfoMap |-> qmap, err |-> sel.err, selected |-> {}]

discoverQueues(monitoredQueuePatterns, qmap, serverQueues, faultAt) ==
    markSelected(selectQueues(monitoredQueuePatterns, serverQueues, faultAt), qmap)

\* lines 215-220: the names of the list are taken as they are
RECURSIVE takeLiterally(_, _, _)
takeLiterally(qList, i, qmap) ==
    IF i > Len(qList)
    THEN qmap
    ELSE takeLiterally(qList, i + 1, Put(qmap, TrimSpace(qList[i]), NewQInfo))

(***************************************************************************)
(* createSubscriptions                                                     *)
(***************************************************************************)
\* The reconciliation works on st.qInfoMap, st.subHobj, st.opened and st.err;
\* st.calls lists the subscribe calls made, in their order, each with its outcome.
subscribeCall(ty, key, ok) == [ty |-> ty, key |-> key, ok |-> ok]

closeSub(opn, ty, key) ==
    IF <<ty, key>> \in DOMAIN opn
    THEN IF opn[<<ty, key>>] > 1 THEN [opn EXCEPT ![<<ty, key>>] = @ - 1] ELSE Remove(opn, <<ty, key>>)
    ELSE opn

openSub(opn, ty, key) ==
    IF <<ty, key>> \in DOMAIN opn THEN [opn EXCEPT ![<<ty, key>>] = @ + 1] ELSE Put(opn, <<ty, key>>, 1)

\* a subscribe for every key that is not to be closed, with or without a handle
subscribeKey_again(ty, key, failing, st) ==
    IF Len(key) = 0
    THEN st
    ELSE IF key \in DOMAIN st.subHobj[ty] /\ ~st.qInfoMap[key].exists
    THEN [st EXCEPT !.subHobj[ty] = Remove(@, key),
                    !.opened = closeSub(@, ty, key)]
    ELSE IF <<ty, key>> \in failing
    THEN [st EXCEPT !.err = TRUE, !.calls = Append(@, subscribeCall(ty, key, FALSE))]
    ELSE [st EXCEPT !.err = FALSE, !.calls = Append(@, subscribeCall(ty, key, TRUE)),
                    !.subHobj[ty] = Put(@, key, "hobj"),
                    !.qInfoMap[key].firstCollection = TRUE,
                    !.opened = openSub(@, ty, key)]

\* lines 761-783 for one key of qInfoMap
subscribeKey(ty, key, failing, st) ==
    IF Len(key) = 0
    THEN st
    ELSE IF key \in DOMAIN st.subHobj[ty]
    THEN IF st.qInfoMap[key].exists
         THEN st
         ELSE [st EXCEPT !.subHobj[ty] = Remove(@, key),
                         !.opened = closeSub(@, ty, key)]
    ELSE IF <<ty, key>> \in failing
    THEN [st EXCEPT !.err = TRUE, !.calls = Append(@, subscribeCall(ty, key, FALSE))]
    ELSE [st EXCEPT !.err = FALSE, !.calls = Append(@, subscribeCall(ty, key, TRUE)),
                    !.subHobj[ty] = Put(@, key, "hobj"),
                    !.qInfoMap[key].firstCollection = TRUE,
                    !.opened = openSub(@, ty, key)]

RECURSIVE subscribeKeys(_, _, _, _)
subscribeKeys(ty, keys, failing, st) ==
    IF keys = <<>>
    THEN st
    ELSE subscribeKeys(ty, Tail(keys), failing, subscribeKey(ty, Head(keys), failing, st))

\* a subscribe of the queue manager's type that does not look for the handle
subscribeQMgr_again(ty, failing, st) ==
    [st EXCEPT !.err = FALSE, !.calls = Append(@, subscribeCall(ty, QMgrMapKey, TRUE)),
               !.subHobj[ty] = Put(@, QMgrMapKey, "hobj"),
               !.opened = openSub(@, ty, QMgrMapKey)]

\* lines 785-791: the handle is stored whether or not the subscribe succeeded
subscribeQMgr(ty, failing, st) ==
    IF QMgrMapKey \in DOMAIN st.subHobj[ty]
    THEN st
    ELSE IF <<ty, QMgrMapKey>> \in failing
    THEN [st EXCEPT !.err = TRUE, !.calls = Append(@, subscribeCall(ty, QMgrMapKey, FALSE)),
                    !.subHobj[ty] = Put(@, QMgrMapKey, "invalid")]
    ELSE [st EXCEPT !.err = FALSE, !.calls = Append(@, subscribeCall(ty, QMgrMapKey, TRUE)),
                    !.subHobj[ty] = Put(@, QMgrMapKey, "hobj"),
                    !.opened = openSub(@, ty, QMgrMapKey)]

\* the loops of lines 757-798 over the types tys: the error is looked at after each type
RECURSIVE subscribeTypes(_, _, _, _, _)
subscribeTypes(M, tys, keyOrder, failing, st) ==
    IF tys = <<>>
    THEN st
    ELSE LET ty == Head(tys)
             done == IF hasPlaceholder(M[ty[1]].Types[ty[2]].ObjectTopic)
                     THEN subscribeKeys(ty, inOrder(keyOrder, DOMAIN st.qInfoMap), failing, st)
                     ELSE subscribeQMgr(ty, failing, st)
         IN  IF done.err
             THEN done
             ELSE subscribeTypes(M, Tail(tys), keyOrder, failing, done)

RECURSIVE typesInOrder(_, _, _)
typesInOrder(M, clOrder, tyOrder) ==
    IF clOrder = <<>>
    THEN <<>>
    ELSE LET c == Head(clOrder)
             tys == inOrder(tyOrder, DOMAIN M[c].Types)
         IN  [k \in 1..Len(tys) |-> <<c, tys[k]>>] \o typesInOrder(M, Tail(clOrder), tyOrder)

createSubscriptions(M, env, st) ==
    subscribeTypes(M, typesInOrder(M, inOrder(env.clOrder, DOMAIN M), env.tyOrder),
                   env.keyOrder, env.failing, [st EXCEPT !.err = FALSE])

(***************************************************************************)
(* discoverAndSubscribe, DiscoverAndSubscribe, RediscoverAndSubscribe      *)
(***************************************************************************)
ElementIds(M) ==
    UNION {{<<ty[1], ty[2], e>> : e \in DOMAIN M[ty[1]].Types[ty[2]].Elements} : ty \in TypeIds(M)}

\* lines 204-207: the catalog is built, with fresh subscription and value maps
withStats(st, stats) ==
    [st EXCEPT !.Metrics = stats.Classes,
               !.subHobj = [ty \in TypeIds(stats.Classes) |-> EmptyMap],
               !.Values = [e \in ElementIds(stats.Classes) |-> EmptyMap]]

\* lines 211-223
whichQueues(queueList, checkQueueList, env, qmap) ==
    IF checkQueueList
    THEN discoverQueues(queueList, qmap, env.serverQueues, env.faultAt)
    ELSE LET qList == Split(queueList)
         IN  [qInfoMap |-> takeLiterally(qList, 1, qmap), err |-> FALSE,
              selected |-> {TrimSpace(q) : q \in seqToSet(qList)}]

\* lines 225-230 with the queues q of lines 211-223
subscribeSelected(q, env, st) ==
    IF q.err
    THEN [st EXCEPT !.qInfoMap = q.qInfoMap, !.selected = q.selected, !.err = TRUE]
    ELSE createSubscriptions(st.Metrics, env,
                             [st EXCEPT !.qInfoMap = q.qInfoMap, !.selected = q.selected])

\* lines 209-230
queuesAndSubscriptions(queueList, checkQueueList, env, st) ==
    subscribeSelected(whichQueues(queueList, checkQueueList, env, st.qInfoMap), env, st)

\* lines 204-230 with the catalog stats of discoverStats
statsAndQueues(queueList, checkQueueList, env, st, stats) ==
    IF stats.err
    THEN [withStats(st, stats) EXCEPT !.err = TRUE]
    ELSE queuesAndSubscriptions(queueList, checkQueueList, env, withStats(st, stats))

discoverAndSubscribe(queueList, checkQueueList, metaPrefixEmpty, redo, env, st) ==
    IF redo
    THEN queuesAndSubscriptions(queueList, checkQueueList, env, st)
    ELSE statsAndQueues(queueList, checkQueueList, env, st,
                        discoverStats(metaPrefixEmpty, env.fault, env.clOrder, env.tyOrder))

\* lines 186-188
assumeDeleted(qmap) == [k \in DOMAIN qmap |-> [qmap[k] EXCEPT !.exists = FALSE]]

\* lines 193-197
removeDeleted(qmap) == [k \in {x \in DOMAIN qmap : qmap[x].exists} |-> qmap[k]]

rediscover_statsAgain(queueList, checkQueueList, metaPrefixEmpty, env, st) ==
    LET r == discoverAndSubscribe(queueList, checkQueueList, metaPrefixEmpty, FALSE, env,
                                  [st EXCEPT !.qInfoMap = assumeDeleted(@)])
    IN  [r EXCEPT !.qInfoMap = removeDeleted(@)]

\* a rediscovery that drops the stored values of the entities it removes
rediscover_forgetting(queueList, checkQueueList, metaPrefixEmpty, env, st) ==
    LET r == discoverAndSubscribe(queueList, checkQueueList, metaPrefixEmpty, TRUE, env,
                                  [st EXCEPT !.qInfoMap = assumeDeleted(@)])
        left == DOMAIN removeDeleted(r.qInfoMap) \cup {QMgrMapKey}
    IN  [r EXCEPT !.qInfoMap = removeDeleted(@),
                  !.Values = [e \in DOMAIN r.Values |->
                                 [k \in DOMAIN r.Values[e] \cap left |-> r.Values[e][k]]]]

\* lines 180-199
rediscover(queueList, checkQueueList, metaPrefixEmpty, env, st) ==
    LET r == discoverAndSubscribe(queueList, checkQueueList, metaPrefixEmpty, TRUE, env,
                                  [st EXCEPT !.qInfoMap = assumeDeleted(@)])
    IN  [r EXCEPT !.qInfoMap = removeDeleted(@)]

state ==
    [Metrics |-> Metrics, qInfoMap |-> qInfoMap, subHobj |-> subHobj, Values |-> Values,
     opened |-> opened, err |-> FALSE, selected |-> {}, calls |-> <<>>]

\* a panic ends the program
running == op.err # "panic"

\* the caller goes on to rediscovery and to the processing cycles only after
\* DiscoverAndSubscribe has returned without an error
operating ==
    /\ running
    /\ discoveryDone
    /\ ~(op.name = "DiscoverAndSubscribe" /\ op.err = "error")

\* what an operation leaves in op about its subscribe calls: whether one failed, and
\* whether another call was made after a failed one
subFailed(calls) == \E i \in 1..Len(calls) : ~calls[i].ok
subAfterFail(calls) == \E i, j \in 1..Len(calls) : i < j /\ ~calls[i].ok

errorOf(e) == IF e THEN "error" ELSE "nil"

setState(r) ==
    /\ Metrics' = r.Metrics
    /\ qInfoMap' = r.qInfoMap
    /\ subHobj' = r.subHobj
    /\ Values' = r.Values
    /\ opened' = r.opened

DiscoverAndSubscribe(queueList, checkQueueList, metaPrefixEmpty, env) ==
    /\ running
    /\ ~discoveryDone
    /\ discoveryDone' = TRUE
    /\ \E r \in {discoverAndSubscribe(queueList, checkQueueList, metaPrefixEmpty, FALSE, env,
                                      [state EXCEPT !.qInfoMap = EmptyMap])} :
           /\ setState(r)
           /\ op' = [name |-> "DiscoverAndSubscribe", err |-> errorOf(r.err),
                     checkQueueList |-> checkQueueList, before |-> {},
                     selected |-> r.selected, fault |-> env.fault,
                     subFailed |-> subFailed(r.calls), subAfterFail |-> subAfterFail(r.calls)]
    /\ UNCHANGED <<usePublications, call>>

RediscoverAndSubscribe(queueList, checkQueueList, metaPrefixEmpty, env) ==
    /\ operating
    /\ discoveryDone' = TRUE
    /\ \E r \in {rediscover(queueList, checkQueueList, metaPrefixEmpty, env, state)} :
           /\ setState(r)
           /\ op' = [name |-> "RediscoverAndSubscribe", err |-> errorOf(r.err),
                     checkQueueList |-> checkQueueList, before |-> DOMAIN qInfoMap,
                     selected |-> r.selected, fault |-> NoFault,
                     subFailed |-> subFailed(r.calls), subAfterFail |-> subAfterFail(r.calls)]
    /\ UNCHANGED <<usePublications, call>>

GetDiscoveredQueues == DOMAIN qInfoMap

\* lines 126-165. inq is what replyQObj.InqMap answers: it fails, or it gives the
\* queue's MQIA_MAX_Q_DEPTH and MQIA_DEFINITION_TYPE
verifyConfig(inq) ==
    IF ~discoveryDone
    THEN [compCode |-> "MQCC_FAILED", err |-> TRUE]
    ELSE IF inq.fail
    THEN [compCode |-> "MQCC_OK", err |-> TRUE]
    ELSE IF inq.defType = "MQQDT_PREDEFINED"
    THEN [compCode |-> "MQCC_FAILED", err |-> TRUE]
    ELSE IF inq.maxQDepth < (20 + Cardinality(DOMAIN qInfoMap) * 5) * 6 /\ usePublications
    THEN [compCode |-> "MQCC_WARNING", err |-> TRUE]
    ELSE [compCode |-> "MQCC_OK", err |-> FALSE]

VerifyConfig(inq) ==
    /\ running
    /\ \E r \in {verifyConfig(inq)} :
           call' = [fn |-> "VerifyConfig", inq |-> inq, done |-> discoveryDone,
                    tracked |-> Cardinality(DOMAIN qInfoMap),
                    compCode |-> r.compCode, err |-> r.err]
    /\ UNCHANGED mainVars

(***************************************************************************)
(* ProcessPublications                                                     *)
(***************************************************************************)
\* A publication as parsePCFResponse hands it over: the queue or topic name (empty
\* when the message has none), the class and type parameters (Absent when the
\* message has none) and the other parameters in their order, each <<index, value>>.
Absent == 0 - 1

Pub(qName, class, type, samples) ==
    [qName |-> qName, class |-> class, type |-> type, samples |-> samples]

\* the first sample of an index kept
sampleValues_first(samples) ==
    [k \in {samples[i][1] : i \in 1..Len(samples)} |->
        LET first == CHOOSE i \in 1..Len(samples) :
                         /\ samples[i][1] = k
                         /\ \A j \in 1..(i - 1) : samples[j][1] # k
        IN  samples[first][2]]

\* lines 869-873: a later sample of an index replaces the earlier one
sampleValues(samples) ==
    [k \in {samples[i][1] : i \in 1..Len(samples)} |->
        LET last == CHOOSE i \in 1..Len(samples) :
                        /\ samples[i][1] = k
                        /\ \A j \in (i + 1)..Len(samples) : samples[j][1] # k
        IN  samples[last][2]]

\* lines 898-916: whether the sample of the object named qName is left out
discardSample_keepFirst(qmap, qName) ==
    /\ qName # <<>>
    /\ \/ qName \notin DOMAIN qmap
       \/ ~qmap[qName].exists

discardSample_unknownAccepted(qmap, qName) ==
    /\ qName # <<>>
    /\ qName \in DOMAIN qmap
    /\ \/ qmap[qName].firstCollection
       \/ ~qmap[qName].exists

discardSample(qmap, qName) ==
    /\ qName # <<>>
    /\ \/ qName \notin DOMAIN qmap
       \/ qmap[qName].firstCollection
       \/ ~qmap[qName].exists

\* lines 918-926
mergeValue_overwrite(Datatype, known, oldValue, newValue) == newValue

mergeValue(Datatype, known, oldValue, newValue) ==
    IF known
    THEN IF Datatype = "DELTA" THEN oldValue + newValue ELSE newValue
    ELSE newValue

\* lines 894-929 for one message, once its class and type are known to the catalog
mergeMessage(M, qmap, V, classidx, typeidx, qName, values) ==
    LET Elements == M[classidx].Types[typeidx].Elements
        objectName == IF qName = <<>> THEN QMgrMapKey ELSE qName
        touched(e) == /\ e[1] = classidx /\ e[2] = typeidx
                      /\ e[3] \in DOMAIN values
                      /\ e[3] \in DOMAIN Elements
                      /\ ~discardSample(qmap, qName)
    IN  [e \in DOMAIN V |->
            IF touched(e)
            THEN Put(V[e], objectName,
                     mergeValue(Elements[e[3]].Datatype, objectName \in DOMAIN V[e],
                                IF objectName \in DOMAIN V[e] THEN V[e][objectName] ELSE 0,
                                values[e[3]]))
            ELSE V[e]]

\* Metrics.Classes[classidx].Types[typeidx] of line 895 reads a field of a nil
\* pointer when the class or the type is not in the catalog
resolves(M, classidx, typeidx) ==
    classidx \in DOMAIN M /\ typeidx \in DOMAIN M[classidx].Types

\* whether the message brings a sample of an element of its type
bringsSample(M, c, t, values) == DOMAIN values \cap DOMAIN M[c].Types[t].Elements # {}

countSample(seen, qName) ==
    IF qName \in DOMAIN seen THEN [seen EXCEPT ![qName] = @ + 1] ELSE Put(seen, qName, 1)

\* the loop of lines 830-938 over the messages that getMessage returns; classidx and
\* typeidx are variables of the function and keep their value from message to message
RECURSIVE drain(_, _, _, _, _, _, _, _)
drain(M, qmap, msgs, i, classidx, typeidx, V, seen) ==
    IF i > Len(msgs)
    THEN [Values |-> V, panic |-> FALSE, read |-> Len(msgs), seen |-> seen]
    ELSE LET m == msgs[i]
             c == IF m.class = Absent THEN classidx ELSE m.class
             t == IF m.type = Absent THEN typeidx ELSE m.type
             values == sampleValues(m.samples)
         IN  IF DOMAIN values = {}
             THEN drain(M, qmap, msgs, i + 1, c, t, V, seen)
             ELSE IF ~resolves(M, c, t)
             THEN [Values |-> V, panic |-> TRUE, read |-> i, seen |-> seen]
             ELSE drain(M, qmap, msgs, i + 1, c, t,
                        mergeMessage(M, qmap, V, c, t, m.qName, values),
                        IF bringsSample(M, c, t, values) THEN countSample(seen, m.qName) ELSE seen)

\* lines 941-943
collected_unchanged(qmap) == qmap

collected(qmap) == [k \in DOMAIN qmap |-> [qmap[k] EXCEPT !.firstCollection = FALSE]]

MaxValue == 12

withinMaxValue(V) == \A e \in DOMAIN V : \A k \in DOMAIN V[e] : V[e][k] <= MaxValue

\* lines 930-937 and 941-944: what the call returns after the failed getMessage that
\* ended the loop. final is that failure: "noMsg" is MQCC_FAILED with
\* MQRC_NO_MSG_AVAILABLE, "failed" is MQCC_FAILED with another reason, "warning" is
\* MQCC_WARNING (with a reason that is not MQRC_NO_MSG_AVAILABLE).
endOfDrain_anyFailure(qmap, final) == [qInfoMap |-> qmap, err |-> "error"]

endOfDrain(qmap, final) ==
    IF final = "failed"
    THEN [qInfoMap |-> qmap, err |-> "error"]
    ELSE [qInfoMap |-> collected(qmap), err |-> "nil"]

Finals == {"noMsg", "failed", "warning"}

firstCollections(qmap) == {k \in DOMAIN qmap : qmap[k].firstCollection}

\* op keeps of a cycle: how it ended, the entities tracked before it and those whose
\* firstCollection was set before it, and per object name (the empty name: the
\* queue manager) how many of the messages read brought it a sample
processed(err, final, seen) ==
    [name |-> "ProcessPublications", err |-> err, final |-> final, seen |-> seen,
     before |-> DOMAIN qInfoMap, first |-> firstCollections(qInfoMap)]

ProcessPublications(msgs, final) ==
    /\ operating
    /\ IF ~usePublications
       THEN /\ msgs = <<>>
            /\ final = "noMsg"
            /\ UNCHANGED <<Values, qInfoMap>>
            /\ op' = processed("nil", "none", EmptyMap)
       ELSE \E d \in {drain(Metrics, qInfoMap, msgs, 1, 0, 0, Values, EmptyMap)},
               end \in {endOfDrain(qInfoMap, final)} :
                /\ withinMaxValue(d.Values)
                /\ d.panic => (d.read = Len(msgs) /\ final = "noMsg")
                /\ Values' = d.Values
                /\ qInfoMap' = IF d.panic THEN qInfoMap ELSE end.qInfoMap
                /\ op' = processed(IF d.panic THEN "panic" ELSE end.err,
                                   IF d.panic THEN "none" ELSE final, d.seen)
    /\ UNCHANGED <<usePublications, discoveryDone, Metrics, subHobj, opened, call>>

(***************************************************************************)
(* The inputs of the operations and the specification                      *)
(***************************************************************************)
MaxMsgs == 2          \* publications waiting on the reply queue in one cycle

SeqsUpTo(S, n) == UNION {[1..k -> S] : k \in 0..n}

QueueNames == {A1, A2}

\* queue lists: "A*", "A1,A2" and "!A1"
AllA == <<"A", "*">>
BothA == <<"A", "1", ",", "A", "2">>
NotA1 == <<"!", "A", "1">>

Selections ==
    {<<AllA, TRUE>>, <<BothA, TRUE>>, <<NotA1, TRUE>>, <<BothA, FALSE>>}

patternCount(queueList) == Len(Split(queueList))

\* the subscribe calls the queue manager can reject
SubscribeFaults == {{}, {<<<<1, 1>>, A1>>}, {<<<<2, 1>>, QMgrMapKey>>}}

\* An inquiry can only fail for a pattern that is inquired: one of the list, or the
\* "*" that is inquired for a list with a '!'; a list taken literally inquires none.
FaultAts(queueList, checkQueueList) ==
    0..(IF ~checkQueueList THEN 0
        ELSE IF ContainsChar(queueList, "!") THEN 1
        ELSE patternCount(queueList))

\* When no subscribe and no metadata exchange fails, the result is the same for
\* every order of the ranges: one order stands for all of them.
Orders(fault, failing) ==
    IF failing = {} /\ fault = NoFault
    THEN {[clOrder |-> <<1, 2>>, tyOrder |-> <<1>>, keyOrder |-> <<A1, A2>>]}
    ELSE [clOrder : ClassOrders, tyOrder : TypeOrders, keyOrder : Perms(QueueNames)]

Env(fault, order, serverQueues, faultAt, failing) ==
    [fault |-> fault, clOrder |-> order.clOrder, tyOrder |-> order.tyOrder,
     keyOrder |-> order.keyOrder, serverQueues |-> serverQueues, faultAt |-> faultAt,
     failing |-> failing]

\* the publications of the lifecycle: one sample of element 1, for a queue on the
\* per-queue type and for the queue manager on the other
Publications ==
    {Pub(A1, 1, 1, <<<<1, 5>>>>), Pub(<<>>, 2, 1, <<<<1, 5>>>>)}

Init ==
    /\ usePublications \in BOOLEAN
    /\ discoveryDone = FALSE
    /\ Metrics = EmptyMap
    /\ qInfoMap = EmptyMap
    /\ subHobj = EmptyMap
    /\ Values = EmptyMap
    /\ opened = EmptyMap
    /\ op = [name |-> "init", err |-> "nil"]
    /\ call = [fn |-> "none"]

Discover ==
    \E sel \in Selections, metaPrefixEmpty \in BOOLEAN, fault \in MetaFaults,
       failing \in SubscribeFaults, serverQueues \in SUBSET QueueNames :
        \E faultAt \in FaultAts(sel[1], sel[2]), order \in Orders(fault, failing) :
            \* an exchange can only fail when discoverStats (line 468) makes exchanges
            /\ (metaPrefixEmpty /\ ~usePublications) => fault = NoFault
            /\ DiscoverAndSubscribe(sel[1], sel[2], metaPrefixEmpty,
                                    Env(fault, order, serverQueues, faultAt, failing))

\* DiscoverAndSubscribe has stored a handle of the queue manager for every type
\* without the placeholder (line 790): rediscovery subscribes for queues only
ResubscribeFaults == {failing \in SubscribeFaults : \A f \in failing : f[2] # QMgrMapKey}

\* only the type with the placeholder subscribes then, so that the order of the
\* classes makes no difference: the order of the keys of qInfoMap does
KeyOrders(failing) == {o \in Orders(NoFault, failing) : o.clOrder = <<1, 2>>}

Rediscover ==
    \E sel \in Selections, failing \in ResubscribeFaults, serverQueues \in SUBSET QueueNames :
        \E faultAt \in FaultAts(sel[1], sel[2]), order \in KeyOrders(failing) :
            RediscoverAndSubscribe(sel[1], sel[2], TRUE,
                                   Env(NoFault, order, serverQueues, faultAt, failing))

Process ==
    \E msgs \in SeqsUpTo(Publications, MaxMsgs), final \in Finals :
        ProcessPublications(msgs, final)

Next == Discover \/ Rediscover \/ Process

Spec == Init /\ [][Next]_vars

(***************************************************************************)
(* The merge of publications: the queues come and go without faults, and   *)
(* the publications bring queue A1 the values 5 and 7 of its DELTA element *)
(* 1 and of its other element 2.                                           *)
(***************************************************************************)
MergePublications ==
    {Pub(A1, 1, 1, <<<<e, v>>>>) : e \in {1, 2}, v \in {5, 7}}

DiscoverQueues ==
    \E serverQueues \in SUBSET QueueNames :
        DiscoverAndSubscribe(AllA, TRUE, FALSE,
                             Env(NoFault, CHOOSE o \in Orders(NoFault, {}) : TRUE,
                                 serverQueues, 0, {}))

RediscoverQueues ==
    \E serverQueues \in SUBSET QueueNames :
        RediscoverAndSubscribe(AllA, TRUE, FALSE,
                               Env(NoFault, CHOOSE o \in Orders(NoFault, {}) : TRUE,
                                   serverQueues, 0, {}))

ProcessMerge ==
    \E msgs \in SeqsUpTo(MergePublications, MaxMsgs), final \in {"noMsg", "failed"} :
        ProcessPublications(msgs, final)

NextMerge == DiscoverQueues \/ RediscoverQueues \/ ProcessMerge

SpecMerge == Init /\ [][NextMerge]_vars

(***************************************************************************)
(* Publications that the catalog does not know: of class 3, of type 2 of   *)
(* class 1, and of element 3 of type 1 of class 1, next to one it knows    *)
(***************************************************************************)
KnownPublication == Pub(A1, 1, 1, <<<<1, 5>>>>)

UnknownPublications ==
    {Pub(A1, 3, 1, <<<<1, 5>>>>), Pub(A1, 1, 2, <<<<1, 5>>>>), Pub(A1, 1, 1, <<<<3, 5>>>>)}

ProcessUnknown ==
    \E msgs \in SeqsUpTo(UnknownPublications \cup {KnownPublication}, MaxMsgs) :
        ProcessPublications(msgs, "noMsg")

NextUnknown == DiscoverQueues \/ RediscoverQueues \/ ProcessUnknown

SpecUnknown == Init /\ [][NextUnknown]_vars

(***************************************************************************)
(* Publications with two samples of one element index, and publications    *)
(* without the class and type parameters next to one of the queue manager  *)
(***************************************************************************)
RepeatedPublications ==
    {Pub(A1, 1, 1, <<<<e, v>>, <<e, 12 - v>>>>) : e \in {1, 2}, v \in {5, 7}}

QMgrPublication == Pub(<<>>, 2, 1, <<<<1, 5>>>>)

UnnamedPublications ==
    {Pub(A1, Absent, Absent, <<<<1, 7>>>>), Pub(A1, Absent, Absent, <<<<2, 7>>>>)}

\* what a cycle reads: one of these publications, or one without the parameters
\* after one that has them
SampleCycles ==
    {<<m>> : m \in RepeatedPublications \cup UnnamedPublications \cup {QMgrPublication}}
    \cup {<<m, u>> : m \in RepeatedPublications \cup {QMgrPublication},
                     u \in UnnamedPublications}

ProcessSamples ==
    \E msgs \in SampleCycles :
        ProcessPublications(msgs, "noMsg")

NextSamples == DiscoverQueues \/ RediscoverQueues \/ ProcessSamples

SpecSamples == Init /\ [][NextSamples]_vars

(***************************************************************************)
(* Queue lists without "!" in which a pattern is not valid or may match no *)
(* queue: "*A,A1", "A1,*A" and "A1,A2"                                     *)
(***************************************************************************)
BadFirst == <<"*", "A", ",", "A", "1">>
BadLast == <<"A", "1", ",", "*", "A">>

PatternLists == {BadFirst, BadLast, BothA}

PatternEnv(serverQueues) ==
    Env(NoFault, CHOOSE o \in Orders(NoFault, {}) : TRUE, serverQueues, 0, {})

DiscoverPatterns ==
    \E queueList \in PatternLists, serverQueues \in SUBSET QueueNames :
        DiscoverAndSubscribe(queueList, TRUE, FALSE, PatternEnv(serverQueues))

RediscoverPatterns ==
    \E queueList \in PatternLists, serverQueues \in SUBSET QueueNames :
        RediscoverAndSubscribe(queueList, TRUE, FALSE, PatternEnv(serverQueues))

NextPatterns == DiscoverPatterns \/ RediscoverPatterns \/ Process

SpecPatterns == Init /\ [][NextPatterns]_vars

(***************************************************************************)
DiscoverNames ==
    \E sel \in Selections, metaPrefixEmpty \in BOOLEAN, fault \in MetaFaults \cup NameFaults,
       failing \in SubscribeFaults, serverQueues \in SUBSET QueueNames :
        \E faultAt \in FaultAts(sel[1], sel[2]),
           order \in [clOrder : ClassOrders, tyOrder : TypeOrders, keyOrder : {<<A1, A2>>}] :
            /\ (metaPrefixEmpty /\ ~usePublications) => fault = NoFault
            /\ DiscoverAndSubscribe(sel[1], sel[2], metaPrefixEmpty,
                                    Env(fault, order, serverQueues, faultAt, failing))

\* the reply queue: its depth is around what VerifyConfig recommends for no, one
\* and two tracked queues, or the default; it is a predefined or a dynamic queue
ReplyQueues ==
    [fail : BOOLEAN, maxQDepth : {119, 120, 149, 150, 179, 180, defaultMaxQDepth},
     defType : {"MQQDT_PREDEFINED", "MQQDT_TEMPORARY_DYNAMIC"}]

\* before discovery the queue is not inquired: one reply queue stands for all
Verify ==
    \E inq \in ReplyQueues :
        /\ discoveryDone \/ inq = [fail |-> FALSE, maxQDepth |-> defaultMaxQDepth,
                                    defType |-> "MQQDT_TEMPORARY_DYNAMIC"]
        /\ VerifyConfig(inq)

NextNames == DiscoverNames \/ Verify

SpecNames == Init /\ [][NextNames]_vars

\* C15: after discovery VerifyConfig returns MQCC_FAILED with an error whenever
\* the reply queue is predefined, whatever its depth; MQCC_WARNING when the queue
\* is not predefined, publications are in use and its maximum depth is below
\* (20 + 5 * tracked entities) * 6; and MQCC_OK without an error otherwise.
C15_VerifyConfigCodes ==
    (call.fn = "VerifyConfig" /\ call.done) =>
       IF call.inq.defType = "MQQDT_PREDEFINED"
       THEN call.compCode = "MQCC_FAILED" /\ call.err
       ELSE IF usePublications /\ call.inq.maxQDepth < (20 + 5 * call.tracked) * 6
       THEN call.compCode = "MQCC_WARNING"
       ELSE call.compCode = "MQCC_OK" /\ ~call.err

\* C12: when two elements of the discovered catalog have the same name once
\* "object_" is put before the names of the per-object types, DiscoverAndSubscribe
\* returns an error; so after a successful discovery the prefixed names of the
\* catalog are pairwise distinct.
C12_NamesUnique ==
    op.name = "DiscoverAndSubscribe" =>
       /\ (\E x, y \in ElementIds(Metrics) :
               /\ x # y
               /\ prefixedName(Metrics, <<x[1], x[2]>>, x[3])
                      = prefixedName(Metrics, <<y[1], y[2]>>, y[3]))
          => op.err = "error"
       /\ op.err = "nil"
          => \A x, y \in ElementIds(Metrics) :
                 x # y => prefixedName(Metrics, <<x[1], x[2]>>, x[3])
                             # prefixedName(Metrics, <<y[1], y[2]>>, y[3])

\* the queue manager's element is described as a name that is the per-queue
\* element's name with "object_" before it: discovery fails
C12_Witness ==
    /\ op.name = "DiscoverAndSubscribe"
    /\ op.fault.level = "prefixedName"
    /\ ElementIds(Metrics) = {<<1, 1, 1>>, <<1, 1, 2>>, <<2, 1, 1>>}
    /\ prefixedName(Metrics, <<1, 1>>, 1) = prefixedName(Metrics, <<2, 1>>, 1)
    /\ op.err = "error"

(***************************************************************************)
(* FilterRegExp applied to pattern lists and candidate lists               *)
(***************************************************************************)
S1 == <<"S", ".", "1">>
SystemDefQ == <<"S", "Y", "S", "T", "E", "M", ".", "D", "E", "F", ".", "Q">>
Other == <<"O", "T", "H", "E", "R">>
DevQueue1 == <<"D", "E", "V", ".", "Q", "U", "E", "U", "E", ".", "1">>
AllS == <<"S", "*">>
NotSystem == <<"!", "S", "Y", "S", "T", "E", "M", "*">>
NotDev == <<"!", "D", "E", "V", "*">>
NotS1Spaced == <<" ", "!", "S", ".", "1", " ">>

PatternPool == {AllS, NotSystem, NotDev, DevQueue1, NotS1Spaced, <<>>}
CandidatePool == {S1, SystemDefQ, Other, DevQueue1}

\* the patterns of a list, written with commas between them
RECURSIVE commaList(_)
commaList(parts) ==
    IF parts = <<>> THEN <<>>
    ELSE IF Len(parts) = 1 THEN parts[1]
    ELSE parts[1] \o <<",">> \o commaList(Tail(parts))

InitIdle ==
    /\ usePublications = TRUE
    /\ discoveryDone = FALSE
    /\ Metrics = EmptyMap
    /\ qInfoMap = EmptyMap
    /\ subHobj = EmptyMap
    /\ Values = EmptyMap
    /\ opened = EmptyMap
    /\ op = [name |-> "init", err |-> "nil"]
    /\ call = [fn |-> "none"]

Filter ==
    /\ call.fn = "none"
    /\ \E parts \in SeqsUpTo(PatternPool, MaxPatterns) \ {<<>>},
          possibleList \in SeqsUpTo(CandidatePool, MaxCandidates) :
           call' = [fn |-> "FilterRegExp", parts |-> parts, patterns |-> commaList(parts),
                    possibleList |-> possibleList,
                    result |-> FilterRegExp(commaList(parts), possibleList)]
    /\ UNCHANGED mainVars

SpecFilter == InitIdle /\ [][Filter]_vars

\* what the claims about the filter call an exclude pattern, an include pattern and
\* a match: a pattern is written with blanks around it, an exclude pattern starts
\* with '!', and a pattern that ends in '*' stands for every name that starts with
\* what is before the '*'
written(parts) == {TrimSpace(parts[i]) : i \in 1..Len(parts)} \ {<<>>}
excludesOf(parts) == {Tail(r) : r \in {x \in written(parts) : Head(x) = "!"}}
includesOf(parts) == {x \in written(parts) : Head(x) # "!"}

stands(pattern, name) ==
    IF pattern # <<>> /\ pattern[Len(pattern)] = "*"
    THEN /\ Len(name) >= Len(pattern) - 1
         /\ \A i \in 1..(Len(pattern) - 1) : name[i] = pattern[i]
    ELSE name = pattern

\* C10: for a list with exclude and include patterns, in any order, FilterRegExp
\* returns exactly the candidates that no exclude pattern matches and that some
\* include pattern matches, in the order of the candidate list; so a candidate
\* that an exclude pattern matches is not returned even when it is an include
\* pattern itself.
C10_MixedFilter ==
    (/\ call.fn = "FilterRegExp"
     /\ excludesOf(call.parts) # {}
     /\ includesOf(call.parts) # {})
    => /\ ~call.result.overflow
       /\ call.result.qList =
              SelectSeq(call.possibleList,
                        LAMBDA s : /\ \A x \in excludesOf(call.parts) : ~stands(x, s)
                                   /\ \E n \in includesOf(call.parts) : stands(n, s))

\* "!DEV*,DEV.QUEUE.1" over [SYSTEM.DEF.Q, DEV.QUEUE.1] gives the empty list
C10_Witness ==
    /\ call.fn = "FilterRegExp"
    /\ call.patterns = NotDev \o <<",">> \o DevQueue1
    /\ call.possibleList = <<SystemDefQ, DevQueue1>>
    /\ call.result.qList = <<>>

\* C11: with include patterns only, FilterRegExp returns exactly the candidates
\* that at least one include pattern matches; with exclude patterns only, exactly
\* the candidates that no exclude pattern matches. A pattern that ends in '*'
\* matches every candidate that starts with what is before the '*', any other
\* pattern matches the equal candidate only.
C11_OneKindFilter ==
    call.fn = "FilterRegExp" =>
       /\ (includesOf(call.parts) # {} /\ excludesOf(call.parts) = {})
          => /\ ~call.result.overflow
             /\ call.result.qList =
                    SelectSeq(call.possibleList,
                              LAMBDA s : \E n \in includesOf(call.parts) : stands(n, s))
       /\ (excludesOf(call.parts) # {} /\ includesOf(call.parts) = {})
          => /\ ~call.result.overflow
             /\ call.result.qList =
                    SelectSeq(call.possibleList,
                              LAMBDA s : \A x \in excludesOf(call.parts) : ~stands(x, s))

\* "S*,DEV.QUEUE.1" over [SYSTEM.DEF.Q, OTHER, DEV.QUEUE.1] keeps the first and the last
C11_Witness ==
    /\ call.fn = "FilterRegExp"
    /\ call.patterns = AllS \o <<",">> \o DevQueue1
    /\ call.possibleList = <<SystemDefQ, Other, DevQueue1>>
    /\ call.result.qList = <<SystemDefQ, DevQueue1>>

\* C29: FilterRegExp ends for every pattern string and every candidate list, and
\* calls itself at most once, also for a pattern string without a pattern that is
\* not empty ("" or ",").
C29_FilterEnds ==
    call.fn = "FilterRegExp" =>
       /\ ~call.result.overflow
       /\ call.result.calls <= 1

(***************************************************************************)
(* The functions that work on their arguments only, and the loop in which  *)
(* inquireObjects receives a reply                                         *)
(***************************************************************************)
MaxGets == 15         \* Get calls of one inquiry that are followed

\* the sizes of the reply: around the first buffer, around a doubled one, around
\* the last doubled one and around the cap
ReplySizes ==
    {1, 32768, 32769, 65536, 65537, 67108864, 67108865, maxBufSize, maxBufSize + 1}

\* lines 689-691: the first buffer
InquireStart ==
    /\ call.fn = "none"
    /\ \E datalen \in ReplySizes :
           call' = [fn |-> "inquireObjects", datalen |-> datalen, bufSize |-> 32768,
                    truncation |-> TRUE, err |-> "nil", gets |-> 0]
    /\ UNCHANGED mainVars

InquireGet ==
    /\ call.fn = "inquireObjects"
    /\ call.truncation
    /\ call.gets < MaxGets
    /\ \E r \in {getReply(call.bufSize, call.datalen)} :
           call' = [call EXCEPT !.bufSize = r.bufSize, !.truncation = r.truncation,
                                !.err = r.err, !.gets = @ + 1]
    /\ UNCHANGED mainVars

\* patterns with the '*' and the '!' at their place, elsewhere and twice, blank
\* and empty ones
VerifyPool ==
    {<<"A", "*">>, <<"A", "*", "B">>, <<"*", "*">>, <<"!", "A">>, <<"A", "!">>,
     <<"!", "!", "A">>, <<" ", "A", "*", " ">>, <<" ">>, <<>>}

VerifyList ==
    /\ call.fn = "none"
    /\ \E parts \in SeqsUpTo(VerifyPool, MaxPatterns) \ {<<>>} :
           call' = [fn |-> "Verify", parts |-> parts,
                    err |-> VerifyPatterns(commaList(parts)),
                    queueErr |-> VerifyQueuePatterns(commaList(parts))]
    /\ UNCHANGED mainVars

\* the datatypes of the elements and the raw values of a sample
Datatypes == {"PERCENT", "HUNDREDTHS", "MB", "GB", "MICROSEC", "UNIT", "DELTA"}
RawValues == {0 - 7, 0 - 1, 0, 1, 150, 1000000}

NormaliseValue ==
    /\ call.fn = "none"
    /\ \E Datatype \in Datatypes, value \in RawValues :
           call' = [fn |-> "Normalise", Datatype |-> Datatype, value |-> value,
                    result |-> Normalise(Datatype, value), mainVars |-> mainVars]
    /\ UNCHANGED mainVars

\* descriptions: "Put byte count", "Put count", "byte count", "count",
\* "Log file byte count", "Log file count", "byte count total", "count total",
\* "byte byte count" and "Put bytes"
Descriptions ==
    {<<"P", "u", "t", " ", "b", "y", "t", "e", " ", "c", "o", "u", "n", "t">>,
     <<"P", "u", "t", " ", "c", "o", "u", "n", "t">>,
     <<"b", "y", "t", "e", " ", "c", "o", "u", "n", "t">>,
     <<"c", "o", "u", "n", "t">>,
     <<"L", "o", "g", " ", "f", "i", "l", "e", " ", "b", "y", "t", "e", " ", "c", "o", "u", "n", "t">>,
     <<"L", "o", "g", " ", "f", "i", "l", "e", " ", "c", "o", "u", "n", "t">>,
     <<"b", "y", "t", "e", " ", "c", "o", "u", "n", "t", " ", "t", "o", "t", "a", "l">>,
     <<"c", "o", "u", "n", "t", " ", "t", "o", "t", "a", "l">>,
     <<"b", "y", "t", "e", " ", "b", "y", "t", "e", " ", "c", "o", "u", "n", "t">>,
     <<"P", "u", "t", " ", "b", "y", "t", "e", "s">>}

ByteCount == <<"b", "y", "t", "e", " ", "c", "o", "u", "n", "t">>

\* formatDescription for an element, and for the element whose description has
\* "count" where this one has "byte count"
FormatName ==
    /\ call.fn = "none"
    /\ \E Description \in Descriptions, Datatype \in Datatypes :
           call' = [fn |-> "formatDescription", Description |-> Description,
                    Datatype |-> Datatype,
                    name |-> formatDescription(Description, Datatype),
                    other |-> Replace(Description, ByteCount, <<"c", "o", "u", "n", "t">>),
                    otherName |-> formatDescription(
                                      Replace(Description, ByteCount, <<"c", "o", "u", "n", "t">>), Datatype)]
    /\ UNCHANGED mainVars

NextCalls == InquireStart \/ InquireGet \/ VerifyList \/ NormaliseValue \/ FormatName

SpecCalls == InitIdle /\ [][NextCalls]_vars

C17_NormaliseScales ==
    call.fn = "Normalise" =>
       /\ call.value < 0 => call.result.f = 0
       /\ call.value >= 0 =>
             /\ call.result.f = call.value
             /\ <<call.result.times, call.result.over>> =
                    IF call.Datatype = "MB" THEN <<1048576, 1>>
                    ELSE IF call.Datatype = "GB" THEN <<1073741824, 1>>
                    ELSE IF call.Datatype \in {"PERCENT", "HUNDREDTHS"} THEN <<1, 100>>
                    ELSE IF call.Datatype = "MICROSEC" THEN <<1, 1000000>>
                    ELSE <<1, 1>>
       /\ call.mainVars = mainVars

\* a negative number of megabytes is normalised to 0
C17_Witness ==
    /\ call.fn = "Normalise"
    /\ call.Datatype = "MB"
    /\ call.value < 0
    /\ call.result.f = 0

\* where the character c is in the pattern
places(pattern, c) == {i \in 1..Len(pattern) : pattern[i] = c}

\* C16: VerifyPatterns and VerifyQueuePatterns return an error exactly when some
\* pattern of the list that is not empty once trimmed has more than one '*' or a
\* '*' that is not its last character; VerifyQueuePatterns also when a pattern has
\* more than one '!' or a '!' that is not its first character.
C16_PatternErrors ==
    call.fn = "Verify" =>
       /\ call.err <=> \E x \in written(call.parts) : places(x, "*") \ {Len(x)} # {}
       /\ call.queueErr <=> \E x \in written(call.parts) :
                                \/ places(x, "*") \ {Len(x)} # {}
                                \/ places(x, "!") \ {1} # {}

\* "!A, A*" passes both; "A!" passes VerifyPatterns only
C16_Witness ==
    /\ call.fn = "Verify"
    /\ call.parts = <<<<"A", "!">>, <<" ", "A", "*", " ">>>>
    /\ ~call.err
    /\ call.queueErr

\* C13: in inquireObjects a truncated reply is received again with a doubled
\* buffer, up to the cap maxBufSize; when the reply is truncated with the buffer
\* at the cap, the loop ends and the failure is returned as an error.
C13_TruncatedAtCapReturned ==
    [][(/\ call.fn = "inquireObjects"
        /\ call'.fn = "inquireObjects"
        /\ call.truncation
        /\ call.datalen > call.bufSize)
       => IF call.bufSize < maxBufSize
          THEN /\ call'.truncation
               /\ call'.err = "nil"
               /\ call'.bufSize = IF 2 * call.bufSize > maxBufSize
                                  THEN maxBufSize ELSE 2 * call.bufSize
          ELSE /\ ~call'.truncation
               /\ call'.err = "error"]_vars

(***************************************************************************)
(* The claims about the processing cycle                                   *)
(***************************************************************************)
\* what is stored for object key k, element by element
stored(V, k) == [e \in DOMAIN V |-> IF k \in DOMAIN V[e] THEN <<V[e][k]>> ELSE <<>>]

\* the samples of entity q are accepted: it is tracked, it exists, and its first
\* collection is over
accepted(q) ==
    /\ q \in DOMAIN qInfoMap
    /\ qInfoMap[q].exists
    /\ ~qInfoMap[q].firstCollection

\* the store after the one sample of message m is merged as the claims say: a DELTA
\* value is added to the value stored at the key, the first one stored as it is;
\* any other value replaces it
merged(V, m) ==
    LET e == <<m.class, m.type, m.samples[1][1]>>
        v == m.samples[1][2]
        delta == Metrics[m.class].Types[m.type].Elements[m.samples[1][1]].Datatype = "DELTA"
    IN  [V EXCEPT ![e] = Put(@, m.qName,
                             IF delta /\ m.qName \in DOMAIN @ THEN @[m.qName] + v ELSE v)]

RECURSIVE mergedAll(_, _)
mergedAll(V, msgs) ==
    IF msgs = <<>> THEN V ELSE mergedAll(merged(V, Head(msgs)), Tail(msgs))

\* every publication of MergePublications brings A1 a sample: a cycle has read as
\* many messages as op counts samples for A1
read(o) == IF A1 \in DOMAIN o.seen THEN o.seen[A1] ELSE 0
Cycles(n) == [1..n -> MergePublications]

\* message m with the last of its samples alone
lastSample(m) == [m EXCEPT !.samples = <<m.samples[Len(m.samples)]>>]

\* C23: when a message carries several samples of one element index, only the last
\* of them is merged: the cycle that reads the message leaves the store as the
\* merge of that one sample leaves it, a DELTA value grown by the last sample only.
C23_LastSampleMerged ==
    [][(op'.name = "ProcessPublications" /\ accepted(A1)) =>
       \A m \in RepeatedPublications :
          ProcessPublications(<<m>>, "noMsg")
             => /\ op'.err = "nil"
                /\ Values' = merged(Values, lastSample(m))]_vars

\* the DELTA element of A1 has grown from 7 to 12 in a cycle of one message
C23_Witness ==
    /\ op.name = "ProcessPublications"
    /\ op.err = "nil"
    /\ read(op) = 1
    /\ A1 \in op.before \ op.first
    /\ A1 \in DOMAIN Values[<<1, 1, 1>>]
    /\ Values[<<1, 1, 1>>][A1] = 12

\* C27: no operation takes an entry out of an element's value map: a
\* RediscoverAndSubscribe pass leaves the values as they are, those of the entities
\* it removes too, and a processing cycle keeps every entry; when the entity is
\* selected again later, a DELTA sample is added to the value stored before.
C27_ValuesNeverRemoved ==
    [][/\ op'.name = "RediscoverAndSubscribe" => Values' = Values
       /\ op'.name = "ProcessPublications" =>
             /\ \A e \in DOMAIN Values :
                   e \in DOMAIN Values' /\ DOMAIN Values[e] \subseteq DOMAIN Values'[e]
             /\ (accepted(A1) /\ A1 \in DOMAIN Values[<<1, 1, 1>>]) =>
                   \A m \in {x \in MergePublications : x.samples[1][1] = 1} :
                      ProcessPublications(<<m>>, "noMsg")
                         => Values'[<<1, 1, 1>>][A1] = Values[<<1, 1, 1>>][A1] + m.samples[1][2]]_vars

\* a rediscovery has removed A1, and the value stored for it is still there
C27_Witness ==
    /\ op.name = "RediscoverAndSubscribe"
    /\ A1 \in op.before
    /\ A1 \notin DOMAIN qInfoMap
    /\ A1 \in DOMAIN Values[<<1, 1, 1>>]
    /\ Values[<<1, 1, 1>>][A1] = 5

\* C28: within one cycle the samples of a message are merged only into elements
\* of the class and type that the same message names: the sample of a message
\* without the class and type parameters is not merged into the type of an earlier
\* message, so queue A1 gets no value in the queue manager's type, and a cycle that
\* reads such a message after one of A1's leaves the store as the first one alone.
C28_OwnClassOnly ==
    [][(op'.name = "ProcessPublications" /\ accepted(A1)) =>
          /\ \A e \in DOMAIN Values' : e[1] = 2 => A1 \notin DOMAIN Values'[e]
          /\ \A m \in RepeatedPublications, u \in UnnamedPublications :
                ProcessPublications(<<m, u>>, "noMsg")
                   => Values' = merged(Values, lastSample(m))]_vars

\* C19: a sample whose class, type or element index the catalog does not know is
\* left out without an error: a cycle that reads such a message alone leaves the
\* store as it is and returns nil, and a cycle that reads it before a message of
\* a known element goes on to merge that one.
C19_UnresolvedIgnored ==
    [][op'.name = "ProcessPublications" =>
       \A m \in UnknownPublications :
          /\ ProcessPublications(<<m>>, "noMsg")
                => (op'.err = "nil" /\ Values' = Values)
          /\ ProcessPublications(<<m, KnownPublication>>, "noMsg")
                => /\ op'.err = "nil"
                   /\ Values' = IF accepted(A1)
                                THEN merged(Values, KnownPublication) ELSE Values]_vars


\* C20: the exists flag plays no part in a cycle: a sample of a catalogued element
\* for an entity that is tracked and whose firstCollection flag is clear is merged
\* into the store whatever the entity's exists flag is, also when the entity was
\* taken from the queue list as it is written (checkQueueList = false).
C20_ExistsNotConsulted ==
    [][op'.name = "ProcessPublications" =>
       \A m \in {KnownPublication} :
          (/\ A1 \in DOMAIN qInfoMap
           /\ ~qInfoMap[A1].firstCollection
           /\ <<1, 1, 1>> \in DOMAIN Values
           /\ ProcessPublications(<<m>>, "noMsg"))
          => Values' = merged(Values, m)]_vars

C2_DeltaAddsOthersReplace ==
    [][op'.name = "ProcessPublications" =>
       \A msgs \in Cycles(read(op')), final \in {op'.final} \cap Finals :
          (/\ accepted(A1)
           /\ ProcessPublications(msgs, final))
          => Values' = mergedAll(Values, msgs)]_vars

C2_Witness ==
    /\ op.name = "ProcessPublications"
    /\ <<1, 1, 1>> \in DOMAIN Values
    /\ A1 \in DOMAIN Values[<<1, 1, 1>>]
    /\ Values[<<1, 1, 1>>][A1] = 12
    /\ A1 \in DOMAIN Values[<<1, 1, 2>>]
    /\ Values[<<1, 1, 2>>][A1] = 7

\* C5 as it is stated: when any ProcessPublications call has ended, the
\* firstCollection flag of every tracked entity is false.
C5_ClearedAfterAnyCall ==
    op.name = "ProcessPublications" => firstCollections(qInfoMap) = {}

\* C5: when a ProcessPublications call that drained the publications has returned
\* without error, the firstCollection flag of every tracked entity is false, also
\* of an entity that no message of the cycle named.
C5_ClearedAfterDrain ==
    (/\ op.name = "ProcessPublications"
     /\ op.err = "nil"
     /\ usePublications)
    => firstCollections(qInfoMap) = {}

C5_Witness ==
    /\ op.name = "ProcessPublications"
    /\ op.err = "nil"
    /\ usePublications
    /\ \E q \in op.first : q \notin DOMAIN op.seen /\ q \in DOMAIN qInfoMap

\* C8: a getMessage failure with a reason other than "no message available" is
\* returned as the error of ProcessPublications; only "no message available" ends
\* the cycle with success.
C8_FetchFailureReturned ==
    (/\ op.name = "ProcessPublications"
     /\ op.final \in {"failed", "warning"})
    => op.err = "error"

\* C9: publications that name an entity that is not tracked change no stored
\* value and no entry of the tracked set, and make no error: the cycle ends as
\* the cycle without them does, which fails only when the fetch that ended it
\* failed, and which otherwise clears the firstCollection flags of the tracked
\* entities and changes nothing else.
C9_UntrackedIgnored ==
    [][(/\ op'.name = "ProcessPublications"
        /\ A1 \notin DOMAIN qInfoMap
        /\ read(op') > 0)
       => /\ Values' = Values
          /\ op'.err = IF op'.final = "failed" THEN "error" ELSE "nil"
          /\ qInfoMap' = IF op'.final = "failed"
                         THEN qInfoMap
                         ELSE [q \in DOMAIN qInfoMap |->
                                  [qInfoMap[q] EXCEPT !.firstCollection = FALSE]]]_vars

C9_Witness ==
    /\ op.name = "ProcessPublications"
    /\ op.err = "nil"
    /\ A1 \in DOMAIN op.seen
    /\ A1 \notin op.before
    /\ A1 \notin DOMAIN qInfoMap
    /\ \A e \in DOMAIN Values : A1 \notin DOMAIN Values[e]

(***************************************************************************)
(* The claims about discovery and rediscovery                              *)
(***************************************************************************)
subscribedTo(q) == \E ty \in DOMAIN subHobj : q \in DOMAIN subHobj[ty]

\* C3: after RediscoverAndSubscribe, an entity that was tracked before and that the
\* new discovery does not select is not tracked any more and no type holds a
\* subscription handle for it: its subscriptions are closed.
C3_PrunedAndClosed ==
    op.name = "RediscoverAndSubscribe"
    => \A q \in op.before \ op.selected :
           /\ q \notin DOMAIN qInfoMap
           /\ ~subscribedTo(q)
           /\ \A ty \in DOMAIN subHobj : <<ty, q>> \notin DOMAIN opened

\* C4: RediscoverAndSubscribe leaves the stored values of every entity that was
\* tracked before it and that it selects again as they were.
C4_ValuesKept ==
    [][op'.name = "RediscoverAndSubscribe"
       => \A q \in DOMAIN qInfoMap \cap op'.selected :
              stored(Values', q) = stored(Values, q)]_vars

C4_Witness ==
    /\ op.name = "RediscoverAndSubscribe"
    /\ \E q \in op.before \cap op.selected :
           /\ q \in DOMAIN qInfoMap
           /\ \E e \in DOMAIN Values : q \in DOMAIN Values[e]

\* how many subscriptions of type ty for key are open
openCount(opn, ty, key) == IF <<ty, key>> \in DOMAIN opn THEN opn[<<ty, key>>] ELSE 0

\* C21: for a type whose object topic has no placeholder, subscribe is called once,
\* in the first reconciliation that reaches the type, and never again in the
\* RediscoverAndSubscribe passes that follow: the type's map holds one handle, under
\* the self-key, at most one subscription of the type is open, and a pass that
\* finds the handle leaves the handle and the subscription as they are.
C21_QMgrSubscribedOnce ==
    [][op'.name \in {"DiscoverAndSubscribe", "RediscoverAndSubscribe"} =>
       \A ty \in DOMAIN subHobj' :
          (~hasPlaceholder(Metrics'[ty[1]].Types[ty[2]].ObjectTopic)) =>
             /\ DOMAIN subHobj'[ty] \subseteq {QMgrMapKey}
             /\ openCount(opened', ty, QMgrMapKey) <= 1
             /\ (/\ op'.name = "RediscoverAndSubscribe"
                 /\ ty \in DOMAIN subHobj
                 /\ QMgrMapKey \in DOMAIN subHobj[ty])
                => /\ subHobj'[ty] = subHobj[ty]
                   /\ openCount(opened', ty, QMgrMapKey) = openCount(opened, ty, QMgrMapKey)]_vars

\* after a rediscovery the queue manager's type still has its one subscription
C21_Witness ==
    /\ op.name = "RediscoverAndSubscribe"
    /\ <<2, 1>> \in DOMAIN subHobj
    /\ subHobj[<<2, 1>>] = [k \in {QMgrMapKey} |-> "hobj"]
    /\ openCount(opened, <<2, 1>>, QMgrMapKey) = 1

\* C22: after DiscoverAndSubscribe and whatever RediscoverAndSubscribe and
\* ProcessPublications calls follow, no type has more than one open subscription
\* for one key (an entity's name or the self-key), every open subscription is the
\* one whose handle the type's map holds under that key, and a subscribe for a
\* key is issued only when the type's map has no handle for that key.
C22_OneSubscriptionPerKey ==
    [][\A k \in DOMAIN opened' :
          /\ opened'[k] = 1
          /\ k[1] \in DOMAIN subHobj'
          /\ k[2] \in DOMAIN subHobj'[k[1]]
          /\ subHobj'[k[1]][k[2]] = "hobj"
          /\ (openCount(opened', k[1], k[2]) > openCount(opened, k[1], k[2]) /\ k[1] \in DOMAIN subHobj)
                => k[2] \notin DOMAIN subHobj[k[1]]]_vars

\* a rediscovery has kept the subscription of A1 and opened one for A2
C22_Witness ==
    /\ op.name = "RediscoverAndSubscribe"
    /\ op.before = {A1}
    /\ DOMAIN qInfoMap = {A1, A2}
    /\ \E ty \in DOMAIN subHobj :
          /\ DOMAIN subHobj[ty] = {A1, A2}
          /\ openCount(opened, ty, A1) = 1
          /\ openCount(opened, ty, A2) = 1

\* C24: RediscoverAndSubscribe never rebuilds the catalog: the classes, the types
\* and the elements, with their names, topics and datatypes, are after the pass
\* what they were before it; the pass changes the tracked entities and the
\* subscription maps only.
C24_CatalogKept ==
    [][op'.name = "RediscoverAndSubscribe" =>
          /\ Metrics' = Metrics
          /\ Values' = Values
          /\ DOMAIN subHobj' = DOMAIN subHobj]_vars

\* a rediscovery has changed the tracked entities and subscribed for the new one
C24_Witness ==
    /\ op.name = "RediscoverAndSubscribe"
    /\ op.before = {A1}
    /\ DOMAIN qInfoMap = {A2}
    /\ DOMAIN Metrics = {1, 2}
    /\ DOMAIN subHobj[<<1, 1>>] = {A2}

\* the patterns of a queue list, trimmed
patternsOf(queueList) == {TrimSpace(Split(queueList)[i]) : i \in 1..Len(Split(queueList))}

\* the queues of the server that a valid pattern of the list matches
matchedByValid(queueList, serverQueues) ==
    {q \in serverQueues :
        \E pattern \in patternsOf(queueList) : validPattern(pattern) /\ genericMatch(q, pattern)}

\* a pattern of the list is not valid, or is valid and matches no queue
badOrMissing(queueList, serverQueues) ==
    \E pattern \in patternsOf(queueList) :
        \/ ~validPattern(pattern)
        \/ \A q \in serverQueues : ~genericMatch(q, pattern)

\* C25: in a queue discovery without "!" patterns, a pattern that is not valid or
\* that matches no queue has an error reported, and the other patterns are still
\* processed: the queues that the valid patterns match are tracked afterwards.
C25_OtherPatternsProcessed ==
    [][op'.name = "DiscoverAndSubscribe" =>
       \A queueList \in PatternLists, serverQueues \in SUBSET QueueNames :
          DiscoverAndSubscribe(queueList, TRUE, FALSE, PatternEnv(serverQueues))
             => /\ matchedByValid(queueList, serverQueues) \subseteq DOMAIN qInfoMap'
                /\ badOrMissing(queueList, serverQueues) => op'.err = "error"]_vars

\* entity q is after the step what it was before it: tracked, with the same
\* subscriptions open, and with no first collection to discard that it had not
keptAsItWas(q) ==
    /\ q \in DOMAIN qInfoMap'
    /\ \A ty \in DOMAIN subHobj :
          q \in DOMAIN subHobj[ty]
             => /\ q \in DOMAIN subHobj'[ty]
                /\ openCount(opened', ty, q) = openCount(opened, ty, q)
                /\ qInfoMap'[q].firstCollection => qInfoMap[q].firstCollection

\* C26: an entity that is in the monitored set before and after a
\* RediscoverAndSubscribe pass stays tracked, keeps its subscriptions open (none
\* closed, none made anew) and gets no new first collection to discard, with
\* checkQueueList true and with checkQueueList false.
C26_StillMonitoredKept ==
    [][op'.name = "RediscoverAndSubscribe" =>
       \A q \in DOMAIN qInfoMap \cap op'.selected : keptAsItWas(q)]_vars

\* C6: when a subscribe call fails, no subscribe call is made after it and
\* DiscoverAndSubscribe or RediscoverAndSubscribe returns an error.
C6_SubscribeFailureStops ==
    (/\ op.name \in {"DiscoverAndSubscribe", "RediscoverAndSubscribe"}
     /\ op.subFailed)
    => /\ op.err = "error"
       /\ ~op.subAfterFail

\* C7: when a metadata exchange fails or its reply holds a group that is not
\* recognised, DiscoverAndSubscribe returns the error and no subscription is
\* created.
C7_DiscoveryFailureStops ==
    (/\ op.name = "DiscoverAndSubscribe"
     /\ op.fault # NoFault)
    => /\ op.err = "error"
       /\ opened = EmptyMap
       /\ \A ty \in DOMAIN subHobj : subHobj[ty] = EmptyMap

====
